---- MODULE Spec2Model ----
(***************************************************************************)
(* Model of app.py: the Flask routes (start_scrape, status, export_data),  *)
(* the background thread run_scraper with its three collector threads      *)
(* (scrape_google_maps, scrape_github, scrape_reddit), the Startup and     *)
(* Contact tables, and the enrichment routine discover_emails.             *)
(*                                                                         *)
(* Strings that the code parses are sequences of atoms: the separators     *)
(* "/" and ":" are atoms of their own, every other atom is a run of        *)
(* characters without separators.  str.split and str.startswith are        *)
(* computed on that representation.                                        *)
(***************************************************************************)
EXTENDS Integers, Sequences, FiniteSets, Bags, TLC

\* ---------------------------------------------------------------- bounds
MaxJobs == 2        \* accepted submissions explored
MaxItems == 2       \* candidates one source returns for one job
MaxProgress == 1    \* value of progress above which the polling loop is not explored
FairJobs == 1       \* accepted submissions explored under fair scheduling
MaxEnrich == 2      \* calls of discover_emails explored
MaxEmails == 2      \* matches of the e-mail pattern on the root page
MaxWords == 2       \* words on a /jobs page
LongTicks == 101    \* passes of the polling loop explored for a long-running job

Jobs == 1..(IF MaxJobs > FairJobs THEN MaxJobs ELSE FairJobs)

\* ------------------------------------------------------- program constants
InitialTotal == 100     \* __main__: scraping_status["total"]
RunTotal == 30          \* run_scraper: scraping_status["total"]
FinalProgress == 100    \* run_scraper, finally: scraping_status["progress"]
PlaceholderId == 1      \* discover_emails: startup_id=1

NoneVal == "None"

\* ----------------------------------------------------------- str helpers
RECURSIVE Split(_, _)
\* str.split(sep): the list of the pieces between the occurrences of sep
Split(s, sep) ==
    IF s = <<>> THEN << <<>> >>
    ELSE IF Head(s) = sep THEN << <<>> >> \o Split(Tail(s), sep)
    ELSE LET r == Split(Tail(s), sep)
         IN  << <<Head(s)>> \o Head(r) >> \o Tail(r)

\* str.startswith(p)
StartsWith(s, p) == Len(s) >= Len(p) /\ SubSeq(s, 1, Len(p)) = p

\* blog_url.startswith(('http://', 'https://'))
HasHttpScheme(s) ==
    \/ StartsWith(s, <<"http", ":", "/", "/">>)
    \/ StartsWith(s, <<"https", ":", "/", "/">>)

\* url.split('/')[2]; the list index 2 is position 3 of a TLA+ sequence
HostPart(s) == Split(s, "/")[3]

\* whether url.split('/')[2] raises IndexError
HostPartFails(s) == Len(Split(s, "/")) < 3

\* ------------------------------------------------------------ sample data
Str(s) == [kind |-> "str", s |-> s]
Null == [kind |-> "null", s |-> <<>>]

\* what the GitHub search and profile requests return for one item
GithubItems ==
    { [login |-> "acme",
       blog |-> Str(<<"https", ":", "/", "/", "acme.io", "/", "page">>),
       linkedin |-> "acme-hq"],
      [login |-> "beta",
       blog |-> Str(<<"http", ":", "/", "/", "Acme.io", ":", "8080">>),
       linkedin |-> NoneVal],
      [login |-> "nohost",
       blog |-> Str(<<"https", ":", "/", "/">>),
       linkedin |-> NoneVal],
      [login |-> "plain",
       blog |-> Str(<<"acme.io">>),
       linkedin |-> NoneVal],
      [login |-> "noblog",
       blog |-> Null,
       linkedin |-> NoneVal] }

\* what subreddit.new yields: submissions with a title and a url
RedditItems ==
    { [title |-> "Acme launch",
       url |-> <<"https", ":", "/", "/", "acme.io", "/", "launch">>],
      [title |-> "Gamma",
       url |-> <<"https", ":", "/", "/", "gamma.dev">>],
      [title |-> "Ask",
       url |-> <<"self.post">>] }

Locations == {"", "berlin"}

\* ------------------------------------------------------------------ state
VARIABLES
    scraping_status,  \* the global dict read by /status
    runner,           \* per job: the run_scraper thread, [pc, location]
    maps,             \* per job: the scrape_google_maps thread
    gh,               \* per job: the scrape_github thread, [pc, todo, outcome]
    rd,               \* per job: the scrape_reddit thread, [pc, todo, outcome]
    startups,         \* table Startup: sequence of rows, id = position
    offered,          \* history: the candidates handed to db.session.add/commit
    response,         \* the last HTTP response sent
    contacts,         \* table Contact: bag of rows [startup_id, email, source]
    session,          \* Contact objects added to db.session and not yet committed
    enrichRuns,       \* number of enrichment calls made
    technologies,     \* table Technology: bag of rows [startup_id, tech_name]
    probe,            \* history: the last enrichment call, [op, domain, found, wrote]
    limits            \* the run explored: submissions accepted, candidates per
                      \* source, passes of the polling loop

vars == <<scraping_status, runner, maps, gh, rd, startups, offered, response,
          contacts, session, enrichRuns, technologies, probe, limits>>

jobVars == <<runner, maps, gh, rd>>
enrichVars == <<contacts, session, enrichRuns, technologies, probe>>

NoStatus == [active |-> FALSE, progress |-> 0, total |-> 0]

\* a response: which route answered, the HTTP code, and the body (a message,
\* the status dict of /status, the rows of /export)
Response(op, code, body, st, rows) ==
    [op |-> op, code |-> code, body |-> body, status |-> st, rows |-> rows]

IdleCollector == [pc |-> "idle", todo |-> 0, outcome |-> "none"]

\* the runs explored: concurrent jobs whose sources return nothing, and one job
\* whose sources return candidates
Runs == { [jobs |-> MaxJobs, items |-> 0, ticks |-> MaxProgress],
          [jobs |-> 1, items |-> MaxItems, ticks |-> MaxProgress] }

\* the runs explored under fair scheduling
FairRuns == { [jobs |-> FairJobs, items |-> 0, ticks |-> MaxProgress],
              [jobs |-> 1, items |-> MaxItems, ticks |-> MaxProgress] }

\* no submission at all
NoRuns == { [jobs |-> 0, items |-> 0, ticks |-> 0] }

\* one job whose collectors stay alive for many passes of the polling loop
LongRuns == { [jobs |-> 1, items |-> 0, ticks |-> LongTicks] }

\* no enrichment call made so far
NoProbe == [op |-> "none", domain |-> <<>>, found |-> {}, wrote |-> {}]

\* the row db.session.add and commit store for the i-th candidate
StartupRow(i, name, domain, linkedin) ==
    [id |-> i, name |-> name, domain |-> domain, linkedin |-> linkedin]

\* the table Startup after scrape_reddit stored the first n of these submissions
StoredSubmissions(titles, n) ==
    [i \in 1..n |->
        LET it == CHOOSE x \in RedditItems : x.title = titles[i]
        IN  StartupRow(i, it.title, HostPart(it.url), NoneVal)]

\* stores that enrichment finds: empty, or holding two organizations
SampleStores == { StoredSubmissions(<<"Acme launch", "Gamma">>, n) : n \in {0, 2} }

\* __main__ (lines 292-296) and module load, for one of the runs and one of
\* the stores
InitStore(runs, stores) ==
    /\ scraping_status = [active |-> FALSE, progress |-> 0, total |-> InitialTotal]
    /\ runner = [j \in Jobs |-> [pc |-> "none", location |-> ""]]
    /\ maps = [j \in Jobs |-> "idle"]
    /\ gh = [j \in Jobs |-> IdleCollector]
    /\ rd = [j \in Jobs |-> IdleCollector]
    /\ startups \in stores
    /\ offered = {}
    /\ response = Response("none", 0, "", NoStatus, <<>>)
    /\ contacts = EmptyBag
    /\ session = EmptyBag
    /\ enrichRuns = 0
    /\ technologies = EmptyBag
    /\ probe = NoProbe
    /\ limits \in runs

\* the program started on an empty database
InitFor(runs) == InitStore(runs, {<<>>})

Init == InitFor(Runs)

\* ------------------------------------------------------------ table Startup
\* the UNIQUE constraint of Startup.domain compares the stored strings
DomainTaken(domain) == \E i \in 1..Len(startups) : startups[i].domain = domain

\* db.session.add(startup); db.session.commit() when the constraint allows it
InsertRow(name, domain, linkedin) ==
    Append(startups, StartupRow(Len(startups) + 1, name, domain, linkedin))

\* a pass of the loop whose failing commit also takes back the row stored last
StoreCandidateRollsBack(c, j, name, domain, linkedin) ==
    /\ offered' = offered \cup {[name |-> name, domain |-> domain, linkedin |-> linkedin]}
    /\ IF DomainTaken(domain)
       THEN /\ c' = [c EXCEPT ![j] = [pc |-> "done", todo |-> @.todo - 1,
                                      outcome |-> "integrity"]]
            /\ startups' = SubSeq(startups, 1, Len(startups) - 1)
       ELSE /\ startups' = InsertRow(name, domain, linkedin)
            /\ c' = [c EXCEPT ![j] = [pc |-> IF @.todo = 1 THEN "done" ELSE "items",
                                      todo |-> @.todo - 1, outcome |-> "none"]]

\* one pass of a collector's for loop over a candidate (name, domain, linkedin):
\* the row is inserted and the loop goes on, or commit raises IntegrityError,
\* which the except clause around the whole loop logs, ending the thread
StoreCandidate(c, j, name, domain, linkedin) ==
    /\ offered' = offered \cup {[name |-> name, domain |-> domain, linkedin |-> linkedin]}
    /\ IF DomainTaken(domain)
       THEN /\ c' = [c EXCEPT ![j] = [pc |-> "done", todo |-> @.todo - 1,
                                      outcome |-> "integrity"]]
            /\ UNCHANGED startups
       ELSE /\ startups' = InsertRow(name, domain, linkedin)
            /\ c' = [c EXCEPT ![j] = [pc |-> IF @.todo = 1 THEN "done" ELSE "items",
                                      todo |-> @.todo - 1, outcome |-> "none"]]

\* the loop passes over a candidate without touching the store; seen records
\* what the request of this pass was answered with
PassCandidate(c, j, seen) ==
    c' = [c EXCEPT ![j] = [pc |-> IF @.todo = 1 THEN "done" ELSE "items",
                           todo |-> @.todo - 1, outcome |-> seen]]

SkipCandidate(c, j) == PassCandidate(c, j, "none")

\* an exception inside the loop: logged by the except clause, the thread ends
AbortCollector(c, j, why) ==
    c' = [c EXCEPT ![j] = [pc |-> "done", todo |-> @.todo - 1, outcome |-> why]]

\* the first request of a collector: it fails, or returns n candidates
StartFeed(c, j) ==
    \/ c' = [c EXCEPT ![j] = [pc |-> "done", todo |-> 0, outcome |-> "fetch_search"]]
    \/ \E n \in 0..limits.items :
          c' = [c EXCEPT ![j] = [pc |-> IF n = 0 THEN "done" ELSE "items",
                                 todo |-> n, outcome |-> "none"]]

\* ---------------------------------------------------------------- collectors
\* scrape_google_maps: domain is None, so "if name and domain" never holds and
\* nothing is stored; the thread ends normally or through its except clause
scrape_google_maps(j) ==
    /\ maps[j] = "run"
    /\ maps' = [maps EXCEPT ![j] = "done"]
    /\ UNCHANGED <<scraping_status, runner, gh, rd, startups, offered, response, enrichVars, limits>>

\* the JSON body of a 403/429 answer of the GitHub API: a message, and neither
\* 'items' nor 'blog'
RateLimitBody == [message |-> "API rate limit exceeded"]

\* dict.get(key, default) on the body of an answer
Get(body, key, default) == IF key \in DOMAIN body THEN body[key] ELSE default

\* scrape_github, lines 123-127: the search request; requests.get does not
\* raise on a 403/429 answer, whose body has no 'items' to loop over
GithubSearch(j) ==
    /\ gh[j].pc = "search"
    /\ \/ StartFeed(gh, j)
       \/ /\ Len(Get(RateLimitBody, "items", <<>>)) = 0
          /\ gh' = [gh EXCEPT ![j] = [pc |-> "done", todo |-> 0, outcome |-> "rate_limited"]]
    /\ UNCHANGED <<scraping_status, runner, maps, rd, startups, offered, response, enrichVars, limits>>

\* scrape_github, lines 127-139: one item of the search result; its profile
\* request fails, is answered 403/429, or returns the profile
GithubItem(j) ==
    /\ gh[j].pc = "items"
    /\ \E it \in GithubItems, answer \in {"ok", "error", "limited"} :
          IF answer = "error"
          THEN AbortCollector(gh, j, "fetch_item") /\ UNCHANGED <<startups, offered>>
          ELSE IF answer = "limited"
          THEN IF HasHttpScheme(Get(RateLimitBody, "blog", <<>>))
               THEN StoreCandidate(gh, j, it.login,
                                   HostPart(Get(RateLimitBody, "blog", <<>>)), NoneVal)
               ELSE PassCandidate(gh, j, "rate_limited") /\ UNCHANGED <<startups, offered>>
          ELSE IF it.blog.kind = "null"
          THEN AbortCollector(gh, j, "parse") /\ UNCHANGED <<startups, offered>>
          ELSE IF ~HasHttpScheme(it.blog.s)
          THEN SkipCandidate(gh, j) /\ UNCHANGED <<startups, offered>>
          ELSE StoreCandidate(gh, j, it.login, HostPart(it.blog.s), it.linkedin)
    /\ UNCHANGED <<scraping_status, runner, maps, rd, response, enrichVars, limits>>

\* scrape_reddit, lines 147-153: the client and the listing request
RedditSearch(j) ==
    /\ rd[j].pc = "search"
    /\ StartFeed(rd, j)
    /\ UNCHANGED <<scraping_status, runner, maps, gh, startups, offered, response, enrichVars, limits>>

\* scrape_reddit, lines 153-162: one submission of the listing
RedditItem(j) ==
    /\ rd[j].pc = "items"
    /\ \E it \in RedditItems :
          IF HostPartFails(it.url)
          THEN AbortCollector(rd, j, "parse") /\ UNCHANGED <<startups, offered>>
          ELSE StoreCandidate(rd, j, it.title, HostPart(it.url), NoneVal)
    /\ UNCHANGED <<scraping_status, runner, maps, gh, response, enrichVars, limits>>

\* ---------------------------------------------------------------- run_scraper
\* Thread.is_alive() of the three collector threads of job j
AnyAlive(j) ==
    \/ maps[j] = "run"
    \/ gh[j].pc \in {"search", "items"}
    \/ rd[j].pc \in {"search", "items"}

\* line 228: the global is rebound to a fresh dict
RunnerInit(j) ==
    /\ runner[j].pc = "init"
    /\ scraping_status' = [active |-> TRUE, progress |-> 0, total |-> RunTotal]
    /\ runner' = [runner EXCEPT ![j].pc = "start"]
    /\ UNCHANGED <<maps, gh, rd, startups, offered, response, enrichVars, limits>>

\* lines 231-237: the first k threads start; Thread.start() of the next one
\* raises (k < 3) and control passes to the finally clause
RunnerStart(j) ==
    /\ runner[j].pc = "start"
    /\ \E k \in 0..3 :
          /\ maps' = [maps EXCEPT ![j] = IF k >= 1 THEN "run" ELSE @]
          /\ gh' = [gh EXCEPT ![j].pc = IF k >= 2 THEN "search" ELSE @]
          /\ rd' = [rd EXCEPT ![j].pc = IF k >= 3 THEN "search" ELSE @]
          /\ runner' = [runner EXCEPT ![j].pc = IF k = 3 THEN "poll" ELSE "finally"]
    /\ UNCHANGED <<scraping_status, startups, offered, response, enrichVars, limits>>

\* line 239: the loop condition
RunnerPoll(j) ==
    /\ runner[j].pc = "poll"
    /\ IF AnyAlive(j)
       THEN /\ scraping_status.progress < limits.ticks
            /\ runner' = [runner EXCEPT ![j].pc = "sleep"]
       ELSE runner' = [runner EXCEPT ![j].pc = "finally"]
    /\ UNCHANGED <<scraping_status, maps, gh, rd, startups, offered, response, enrichVars, limits>>

\* lines 240-241: after the sleep, the global dict's progress goes up by one
RunnerTick(j) ==
    /\ runner[j].pc = "sleep"
    /\ scraping_status' = [scraping_status EXCEPT !.progress = @ + 1]
    /\ runner' = [runner EXCEPT ![j].pc = "poll"]
    /\ UNCHANGED <<maps, gh, rd, startups, offered, response, enrichVars, limits>>

\* the finally clause without line 244: the flag is left as it is
RunnerFinallyKeepsFlag(j) ==
    /\ runner[j].pc = "finally"
    /\ scraping_status' = [scraping_status EXCEPT !.progress = FinalProgress]
    /\ runner' = [runner EXCEPT ![j].pc = "done"]
    /\ UNCHANGED <<maps, gh, rd, startups, offered, response, enrichVars, limits>>

\* lines 243-246: the finally clause writes to whatever dict the global names
RunnerFinally(j) ==
    /\ runner[j].pc = "finally"
    /\ scraping_status' = [scraping_status EXCEPT !.active = FALSE,
                                                  !.progress = FinalProgress]
    /\ runner' = [runner EXCEPT ![j].pc = "done"]
    /\ UNCHANGED <<maps, gh, rd, startups, offered, response, enrichVars, limits>>

run_scraper(j) ==
    \/ RunnerInit(j)
    \/ RunnerStart(j)
    \/ RunnerPoll(j)
    \/ RunnerTick(j)
    \/ RunnerFinally(j)

\* -------------------------------------------------------------------- routes
\* the job slot the next accepted submission takes
NextJob == CHOOSE j \in Jobs : runner[j].pc = "none" /\ \A i \in Jobs : i < j => runner[i].pc # "none"

\* a start_scrape that starts the job thread before it looks at the location
start_scrapeChecksLate(location) ==
    /\ \E j \in 1..limits.jobs : runner[j].pc = "none"
    /\ runner' = [runner EXCEPT ![NextJob] = [pc |-> "init", location |-> location]]
    /\ response' = IF location = ""
                   THEN Response("start_scrape", 400, "Location is required", NoStatus, <<>>)
                   ELSE Response("start_scrape", 200, "started", NoStatus, <<>>)
    /\ UNCHANGED <<scraping_status, maps, gh, rd, startups, offered, enrichVars, limits>>

\* POST /start_scrape, lines 253-262
start_scrape(location) ==
    IF location = ""
    THEN /\ response' = Response("start_scrape", 400, "Location is required", NoStatus, <<>>)
         /\ UNCHANGED <<scraping_status, jobVars, startups, offered, enrichVars, limits>>
    ELSE /\ \E j \in 1..limits.jobs : runner[j].pc = "none"
         /\ runner' = [runner EXCEPT ![NextJob] = [pc |-> "init", location |-> location]]
         /\ response' = Response("start_scrape", 200, "started", NoStatus, <<>>)
         /\ UNCHANGED <<scraping_status, maps, gh, rd, startups, offered, enrichVars, limits>>

\* a status route that answers only once no collector is alive
statusWaitsForCollectors ==
    /\ \A j \in Jobs : ~AnyAlive(j)
    /\ response' = Response("status", 200, "", scraping_status, <<>>)
    /\ UNCHANGED <<scraping_status, jobVars, startups, offered, enrichVars, limits>>

\* GET /status, lines 264-266
status ==
    /\ response' = Response("status", 200, "", scraping_status, <<>>)
    /\ UNCHANGED <<scraping_status, jobVars, startups, offered, enrichVars, limits>>

\* names bound at module level: the imports of lines 2-18 and the definitions
ModuleNames ==
    {"os", "re", "time", "random", "logging", "requests", "datetime", "Flask",
     "render_template", "request", "send_file", "jsonify", "SQLAlchemy", "Signal",
     "Controller", "webdriver", "Options", "BeautifulSoup", "praw", "csv",
     "threading", "app", "db", "logger", "Startup", "Contact", "Technology"}

\* attributes of the Startup model class (lines 31-36)
StartupAttributes == {"id", "name", "domain", "linkedin", "created_at"}

ExportHeader == <<"Company Name", "Domain", "Emails", "Technologies", "LinkedIn">>

\* the exception export_data ends with, or "ok": StringIO() on line 270,
\* startup.contacts on line 276 for the first row, make_response on line 286
ExportOutcome ==
    IF "StringIO" \notin ModuleNames THEN "NameError"
    ELSE IF startups # <<>> /\ ~({"contacts", "technologies"} \subseteq StartupAttributes)
    THEN "AttributeError"
    ELSE IF "make_response" \notin ModuleNames THEN "NameError"
    ELSE "ok"

\* lines 272-284: the header row, then one row per Startup
ExportRows ==
    <<ExportHeader>> \o
    [i \in 1..Len(startups) |->
        <<startups[i].name, startups[i].domain,
          {r.email : r \in {c \in BagToSet(contacts) : c.startup_id = startups[i].id}},
          {}, startups[i].linkedin>>]

\* GET /export, lines 268-289
export_data ==
    /\ response' = IF ExportOutcome = "ok"
                   THEN Response("export", 200, "startup_data.csv", NoStatus, ExportRows)
                   ELSE Response("export", 500, ExportOutcome, NoStatus, <<>>)
    /\ UNCHANGED <<scraping_status, jobVars, startups, offered, enrichVars, limits>>

\* ------------------------------------------------------------- enrichment
Emails == {"a@acme.io", "b@acme.io"}
Fail == <<"fail">>

\* what re.findall returns for a fetched page: the matches in order, or Fail
\* when requests.get raises
RootPages == {Fail} \cup UNION {[1..n -> Emails] : n \in 0..MaxEmails}
PathPages == {Fail} \cup UNION {[1..n -> Emails] : n \in 0..1}

common_paths == <<"/contact", "/about", "/careers", "/contact-us">>

\* res.url of the request for path i: the path itself, or the path a redirect led to
FinalUrls == { [i \in 1..4 |-> i], [i \in 1..4 |-> IF i = 1 THEN 4 ELSE i] }

BagOfSeq(seq) ==
    [e \in {seq[i] : i \in DOMAIN seq} |-> Cardinality({i \in DOMAIN seq : seq[i] = e})]

BagOfSet(S) == [e \in S |-> 1]

ContactRow(email, source) == [startup_id |-> PlaceholderId, email |-> email, source |-> source]

RECURSIVE ProbePaths(_, _, _, _, _)
\* lines 182-186: the loop over common_paths from position i on; the result is
\* the list emails, or Fail when a request raised
ProbePaths(i, visited, emails, pages, finalUrl) ==
    IF i > Len(common_paths) THEN emails
    ELSE IF i \in visited
    THEN ProbePaths(i + 1, visited, emails, pages, finalUrl)
    ELSE IF pages[i] = Fail THEN Fail
    ELSE ProbePaths(i + 1, visited \cup {finalUrl[i]}, emails \o pages[i], pages, finalUrl)

RECURSIVE ProbedEmails(_, _, _, _, _)
\* lines 182-186: the matches collected up to the first request that raised
ProbedEmails(i, visited, emails, pages, finalUrl) ==
    IF i > Len(common_paths) THEN emails
    ELSE IF i \in visited
    THEN ProbedEmails(i + 1, visited, emails, pages, finalUrl)
    ELSE IF pages[i] = Fail THEN emails
    ELSE ProbedEmails(i + 1, visited \cup {finalUrl[i]}, emails \o pages[i], pages, finalUrl)

Range(seq) == {seq[i] : i \in DOMAIN seq}

\* the startup_id values of a bag of rows
Owners(rows) == {r.startup_id : r \in BagToSet(rows)}

\* lines 177-179: one Contact per match on the root page
RootContacts(root) == BagOfSeq([i \in DOMAIN root |-> ContactRow(root[i], "root")])

\* lines 189-191: one Contact per distinct email; path is the loop variable
\* left over from line 182, the last of common_paths
SavedContacts(emails) ==
    BagOfSet({ContactRow(e, common_paths[Len(common_paths)]) :
                 e \in {emails[i] : i \in DOMAIN emails}})

\* discover_emails(domain), lines 168-196
discover_emails(domain, root, pages, finalUrl, keepSession) ==
    /\ enrichRuns < MaxEnrich
    /\ enrichRuns' = enrichRuns + 1
    /\ IF root = Fail
       THEN /\ probe' = [op |-> "discover_emails", domain |-> domain,
                         found |-> {}, wrote |-> {}]
            /\ UNCHANGED <<contacts, session>>
       ELSE LET emails == ProbePaths(1, {}, root, pages, finalUrl)
            IN  IF emails = Fail
                THEN /\ session' = IF keepSession THEN session (+) RootContacts(root)
                                   ELSE EmptyBag
                     /\ probe' = [op |-> "discover_emails", domain |-> domain,
                                  found |-> Range(ProbedEmails(1, {}, root, pages, finalUrl)),
                                  wrote |-> {}]
                     /\ UNCHANGED contacts
                ELSE /\ contacts' = contacts (+) session (+) RootContacts(root)
                                             (+) SavedContacts(emails)
                     /\ session' = EmptyBag
                     /\ probe' = [op |-> "discover_emails", domain |-> domain,
                                  found |-> Range(emails),
                                  wrote |-> Owners(RootContacts(root) (+) SavedContacts(emails))]
    /\ UNCHANGED <<scraping_status, jobVars, startups, offered, response,
                   technologies, limits>>

\* lines 200-204: the patterns of the three categories
tech_patterns ==
    [frameworks |-> <<"react", "vue", "angular", "django", "flask", "rails">>,
     hosting |-> <<"heroku", "aws", "azure", "firebase", "netlify">>,
     ecommerce |-> <<"shopify", "woocommerce", "bigcommerce">>]

\* words a /jobs page may contain
Words == {"React", "aws", "cobol"}

\* str.lower on the words of the sample pages
lower(w) == IF w = "React" THEN "react" ELSE w

\* what the request for /jobs returns: the words of the page in order, or Fail
\* when requests.get raises
JobsPages == {Fail} \cup UNION {[1..n -> Words] : n \in 0..MaxWords}

\* lines 210-214: the patterns that occur in the lowered text
Detected(page) ==
    { pattern \in UNION {Range(tech_patterns[category]) : category \in DOMAIN tech_patterns} :
         pattern \in {lower(w) : w \in Range(page)} }

TechnologyRow(tech) == [startup_id |-> PlaceholderId, tech_name |-> tech]

\* detect_technology(domain), lines 199-223; the commit of line 220 also
\* flushes what an earlier call left pending in db.session
detect_technology(domain, page) ==
    /\ enrichRuns < MaxEnrich
    /\ enrichRuns' = enrichRuns + 1
    /\ IF page = Fail
       THEN /\ probe' = [op |-> "detect_technology", domain |-> domain,
                         found |-> {}, wrote |-> {}]
            /\ UNCHANGED <<contacts, session, technologies>>
       ELSE LET rows == BagOfSet({TechnologyRow(t) : t \in Detected(page)})
            IN  /\ technologies' = technologies (+) rows
                /\ contacts' = contacts (+) session
                /\ session' = EmptyBag
                /\ probe' = [op |-> "detect_technology", domain |-> domain,
                             found |-> Detected(page), wrote |-> Owners(rows)]
    /\ UNCHANGED <<scraping_status, jobVars, startups, offered, response, limits>>

\* ------------------------------------------------------------ specifications
Collectors(j) ==
    \/ scrape_google_maps(j)
    \/ GithubSearch(j)
    \/ GithubItem(j)
    \/ RedditSearch(j)
    \/ RedditItem(j)

Submit == \E location \in Locations : start_scrape(location)

Threads == \E j \in Jobs : run_scraper(j) \/ Collectors(j)

Next ==
    \/ Submit
    \/ status
    \/ export_data
    \/ Threads

Spec == Init /\ [][Next]_vars

InitFair == InitFor(FairRuns)

\* submissions and threads, without the read-only routes
NextFair ==
    \/ Submit
    \/ Threads

\* the interpreter schedules every started run_scraper thread; a collector may
\* wait on the network for ever
FairSpec ==
    InitFair /\ [][NextFair]_vars /\ \A j \in Jobs : WF_vars(run_scraper(j))

\* the same program on the runs of FairRuns, all routes included
SpecSolo == InitFair /\ [][Next]_vars

\* a long-running job: the submission, the status route, run_scraper and the
\* first request of each collector
NextLong ==
    \/ Submit
    \/ status
    \/ \E j \in Jobs : \/ run_scraper(j)
                       \/ scrape_google_maps(j)
                       \/ GithubSearch(j)
                       \/ RedditSearch(j)

SpecLong == InitFor(LongRuns) /\ [][NextLong]_vars

\* the domains enrichment is called for: the hosts of the sample submissions
EnrichDomains == {HostPart(it.url) : it \in {x \in RedditItems : ~HostPartFails(x.url)}}

Enrich ==
    \E domain \in EnrichDomains :
       \/ \E root \in RootPages, pages \in [1..4 -> PathPages],
             finalUrl \in FinalUrls, keepSession \in BOOLEAN :
                discover_emails(domain, root, pages, finalUrl, keepSession)
       \/ \E page \in JobsPages : detect_technology(domain, page)

NextEnrich == Enrich

\* enrichment called on a store the collectors have filled
InitEnrich == InitStore(NoRuns, SampleStores)

SpecEnrich == InitEnrich /\ [][NextEnrich]_vars

\* ------------------------------------------------- the specified normal form
\* str.lower on the atoms of the sample data
LowerAtom(a) == IF a = "Acme.io" THEN "acme.io" ELSE a

\* the normalized domain of the specification: scheme, path and port stripped,
\* lower case
Normalize(s) ==
    LET noScheme == IF Len(s) >= 4 /\ SubSeq(s, 2, 4) = <<":", "/", "/">>
                    THEN SubSeq(s, 5, Len(s)) ELSE s
        host == Head(Split(Head(Split(noScheme, "/")), ":"))
    IN  [i \in DOMAIN host |-> LowerAtom(host[i])]

\* ------------------------------------------------------------------ claims
\* job j has set the status to running and has not yet run its finally clause
Running(j) == runner[j].pc \in {"start", "poll", "sleep", "finally"}

\* job j is accepted and some collector of it has not finished (or not started)
CollectorsPending(j) == runner[j].pc \in {"init", "start"} \/ AnyAlive(j)

\* C1: at most one job is Running at any time; a submission made while a job
\* is Running is rejected and starts nothing.
C1_AtMostOneRunning ==
    Cardinality({j \in Jobs : Running(j)}) <= 1

\* C2: the status reads as not active only if every collector task started
\* for the job has finished.
C2_InactiveOnlyWhenCollectorsDone ==
    ~scraping_status.active => \A j \in Jobs : ~AnyAlive(j)

\* C3: candidates with the same normalized domain leave exactly one Startup
\* row for that domain.
C3_OneRowPerNormalizedDomain ==
    \A i, k \in 1..Len(startups) :
        Normalize(startups[i].domain) = Normalize(startups[k].domain) => i = k

\* C4: once a candidate with a populated linkedin has been handed to the store,
\* the row of its domain has a populated linkedin, whichever candidate of that
\* domain came first.
C4_FillIfEmpty ==
    \A c \in offered :
        c.linkedin # NoneVal =>
            \E i \in 1..Len(startups) :
                /\ Normalize(startups[i].domain) = Normalize(c.domain)
                /\ startups[i].linkedin # NoneVal

\* C5: when the GitHub collector of a finished job failed at its first request
\* and the Reddit source answered, the Reddit collector went through every
\* candidate of its listing (and the same with the two collectors exchanged).
C5_Isolation ==
    \A j \in Jobs :
        runner[j].pc = "done" /\ gh[j].pc = "done" /\ rd[j].pc = "done" =>
            /\ (gh[j].outcome = "fetch_search" /\ rd[j].outcome # "fetch_search"
                    => rd[j].todo = 0)
            /\ (rd[j].outcome = "fetch_search"
                /\ gh[j].outcome \notin {"fetch_search", "fetch_item"}
                    => gh[j].todo = 0)

\* the collectors of job j were started and none is alive, and run_scraper has
\* not yet finished
CollectorsTerminated(j) == runner[j].pc \in {"poll", "sleep", "finally"} /\ ~AnyAlive(j)

\* C6: once every collector of an accepted job has terminated, normally or with
\* an error, run_scraper eventually completes and the status reads not active.
C6_EventuallyCompleted ==
    \A j \in Jobs :
        CollectorsTerminated(j) ~> (runner[j].pc = "done" /\ ~scraping_status.active)

\* C6 witness: a job completed although one of its collectors ended with an error
C6_Witness ==
    \E j \in Jobs :
        /\ runner[j].pc = "done"
        /\ ~scraping_status.active
        /\ gh[j].outcome \in {"fetch_search", "fetch_item", "parse", "integrity"}
        /\ rd[j].pc = "done"

\* C7: from the answer "started" until the collectors of the job have all
\* finished, the status reads active.
C7_ActiveAfterAccept ==
    \A j \in Jobs :
        runner[j].pc # "none" /\ CollectorsPending(j) => scraping_status.active

\* C8: no Startup row has a domain that is empty after normalization.
C8_NoEmptyDomain ==
    \A i \in 1..Len(startups) : Normalize(startups[i].domain) # <<>>

\* the number of Contact rows of organization org with this email
ContactCount(org, email) ==
    LET rows == {r \in BagToSet(contacts) : r.startup_id = org /\ r.email = email}
        RECURSIVE Sum(_)
        Sum(R) == IF R = {} THEN 0
                  ELSE LET r == CHOOSE x \in R : TRUE
                       IN  CopiesIn(r, contacts) + Sum(R \ {r})
    IN  Sum(rows)

\* C9: no two Contact rows have the same (organization, email) pair.
C9_NoDuplicateContacts ==
    \A email \in Emails : ContactCount(PlaceholderId, email) <= 1

\* C10: export answers with the header row followed by the rows of the store,
\* the header row alone when the store is empty.
C10_ExportReturnsRows ==
    response.op = "export" =>
        /\ response.code = 200
        /\ Len(response.rows) >= 1
        /\ response.rows[1] = ExportHeader
        /\ (startups = <<>> => response.rows = <<ExportHeader>>)

\* the last answer is the 400 of start_scrape
Rejected == response.op = "start_scrape" /\ response.code = 400

\* C11: a submission with an empty location is rejected: the step that answers
\* it with 400 starts no job and no collector and leaves the job status and
\* the store as they were, and no job ever runs for an empty location.
C11_EmptyLocationRejected ==
    /\ [](\A j \in Jobs : runner[j].pc # "none" => runner[j].location # "")
    /\ [][Rejected' /\ response' # response
            => UNCHANGED <<scraping_status, runner, maps, gh, rd, startups>>]_vars

\* an empty location was rejected while a job was running and a row was stored
C11_Witness ==
    /\ Rejected
    /\ \E j \in Jobs : Running(j)
    /\ startups # <<>>


\* C12: the status query can be answered in every reachable state (before a
\* first submission, while a job runs, after completion), whatever the
\* collectors are doing, and its answer is 200 with the job status of that
\* moment.
C12_StatusAlwaysAnswers ==
    /\ [](ENABLED status)
    /\ [][response'.op = "status" /\ response' # response
            => response'.code = 200 /\ response'.status = scraping_status]_vars

\* a status read answered while a collector of the running job was still alive
C12_Witness ==
    /\ response.op = "status"
    /\ response.status.active
    /\ scraping_status = response.status
    /\ \E j \in Jobs : Running(j) /\ AnyAlive(j)

\* a step in which run_scraper rebinds the status dict for a newly accepted job
Accepting == \E j \in Jobs : runner[j].pc = "init" /\ runner'[j].pc = "start"

\* C13: within a job the progress counter never decreases: apart from the step
\* that opens a new job, no step takes the progress of the status dict to a
\* smaller value, so that a later status read never shows less than an
\* earlier one, however long the collectors run.
C13_ProgressMonotonic ==
    [][~Accepting => scraping_status'.progress >= scraping_status.progress]_vars

\* C14: a per-candidate error (a field that cannot be parsed, a row the store
\* rejects) skips that candidate only: a collector that met one has still
\* gone through every remaining candidate of its source when it ends.
C14_ErrorSkipsOneCandidate ==
    \A j \in Jobs : \A c \in {gh[j], rd[j]} :
        c.pc = "done" /\ c.outcome \in {"parse", "integrity"} => c.todo = 0

\* C15: once a request of the GitHub collector has been answered with a
\* rate-limit response (the search request or a profile request of the item
\* loop), the collector has stopped: it issues no further request for that job.
C15_StopsOnRateLimit ==
    \A j \in Jobs : gh[j].outcome = "rate_limited" => gh[j].pc = "done"

\* C16: enrichment is best-effort per probe: every email that discover_emails
\* matched on a page it fetched has a Contact row once the call is over, also
\* when the request for a later path failed.
C16_FoundEmailsPersisted ==
    probe.op = "discover_emails" =>
        \A e \in probe.found : \E r \in BagToSet(contacts) : r.email = e

\* C17: the rows an enrichment call writes are attached to the organization
\* whose domain it probed: their startup_id is the id of the stored row with
\* that domain, never the id of another organization.
C17_RowsAttachedToProbedOrg ==
    \A i \in 1..Len(startups) :
        startups[i].domain = probe.domain => probe.wrote \subseteq {startups[i].id}

\* C18: every domain in the store is in normal form: normalizing a stored
\* domain returns it unchanged.
C18_StoredDomainsNormalized ==
    \A i \in 1..Len(startups) : Normalize(startups[i].domain) = startups[i].domain

\* the errors that end a collector before its source is exhausted
EarlyStops == {"fetch_search", "fetch_item", "parse", "integrity"}

\* collector j of kind c ends on an error in the step from before to after
StopsEarly(before, after, j) ==
    /\ before[j].pc \in {"search", "items"}
    /\ after[j].pc = "done"
    /\ after[j].outcome \in EarlyStops

IsPrefix(s, t) == Len(s) <= Len(t) /\ SubSeq(t, 1, Len(s)) = s

\* C19: the step in which a collector stops early on an error leaves the
\* store exactly as it was, and no step ever removes or changes a row already
\* stored: what a collector persisted before its error stays.
C19_EarlyStopKeepsRows ==
    [][/\ IsPrefix(startups, startups')
       /\ (\E j \in Jobs : StopsEarly(gh, gh', j) \/ StopsEarly(rd, rd', j))
             => startups' = startups]_vars

\* scrape_reddit stored a submission and then stopped on an error
C19_Witness ==
    \E j \in Jobs :
        /\ rd[j].pc = "done"
        /\ rd[j].outcome \in {"parse", "integrity"}
        /\ \E i \in 1..Len(startups) : startups[i].name \in {it.title : it \in RedditItems}

\* C20: in every status snapshot the progress lies between 0 and total.
C20_ProgressWithinTotal ==
    /\ 0 <= scraping_status.progress
    /\ scraping_status.progress <= scraping_status.total

====
